---- MODULE Spec2Model ----
(***************************************************************************)
(* Model of the Learn3 video curation pipeline (server/routes.ts) and its  *)
(* quota tracker (server/quotaTracker.ts).                                 *)
(*                                                                         *)
(* Strings are sequences of one-character strings.  Relevance scores are   *)
(* kept in hundredths (0.8 is 80), difficulty scores in tenths (2 is 20,   *)
(* 1.5 is 15), time in minutes.                                            *)
(***************************************************************************)
EXTENDS Integers, Sequences, FiniteSets, TLC

(***************************************************************************)
(* Bounds of the model.                                                    *)
(***************************************************************************)
MaxStarts == 2
MaxNow == 30
SharedPool == 2

Requests == {"a", "b"}

(***************************************************************************)
(* Program constants.                                                      *)
(***************************************************************************)
MaxPoolSize == 6
CACHE_DURATION == 30
CacheCeiling == 100
SearchUnits == 100
UsageKeys == 4

TickSteps == {CACHE_DURATION}

(***************************************************************************)
(* String helpers: toLowerCase, trim.                                      *)
(***************************************************************************)
LowerChar(c) ==
  CASE c = "A" -> "a"
    [] c = "R" -> "r"
    [] c = "T" -> "t"
    [] c = "G" -> "g"
    [] c = "O" -> "o"
    [] OTHER -> c

toLowerCase(s) == [i \in 1..Len(s) |-> LowerChar(s[i])]

RECURSIVE trimStart(_)
trimStart(s) ==
  IF s = <<>> THEN s
  ELSE IF Head(s) = " " THEN trimStart(Tail(s)) ELSE s

RECURSIVE trimEnd(_)
trimEnd(s) ==
  IF s = <<>> THEN s
  ELSE IF s[Len(s)] = " " THEN trimEnd(SubSeq(s, 1, Len(s) - 1)) ELSE s

trim(s) == trimEnd(trimStart(s))

\* variant: the key keeps the surrounding spaces
cacheKeyOf_untrimmed(query) == toLowerCase(query)

cacheKeyOf(query) == trim(toLowerCase(query))

(***************************************************************************)
(* Inputs: the raw topics a client may send.                               *)
(***************************************************************************)
Queries ==
  { <<"A", "r", "t">>,
    <<" ", "a", "r", "t", " ">> }

SearchItemLists == { <<>>, <<1>>, <<6, 7>>, <<4, 5, 8>>, <<1, 2, 2, 4, 3>> }

SearchKinds == {"ok", "quota", "denied", "badkey", "server", "neterr"}

VARIABLES
  numKeys,          \* YOUTUBE_API_KEYS.length
  currentKeyIndex,  \* the round-robin cursor
  searchCache,      \* the Map, as a sequence of entries in insertion order
  quota,            \* QuotaTracker.data[today]: key index -> counters
  detailUnits,      \* history: sum of the video counts of the detail calls, per key index
  now,              \* Date.now(), minutes
  openaiConfigured, \* Boolean(OPENAI_API_KEY)
  remaining,        \* requests the clients have yet to send
  parallel,         \* requests the clients keep in flight at once
  req,              \* per request: position in the handler and its locals
  storedVideos,     \* the videos table: rows as (id, youtubeId, topic)
  bookmarks,        \* the bookmarks table, in insertion order
  searchResults,    \* the videos the page shows after a bookmark was restored
  history           \* history: the calls made in the cache, quota-day and key-pool specifications

vars == <<numKeys, currentKeyIndex, searchCache, quota, detailUnits, now,
          openaiConfigured, remaining, parallel, req, storedVideos, bookmarks, searchResults, history>>

(***************************************************************************)
(* Quota tracker.                                                          *)
(***************************************************************************)
EmptyUsage == [searchCalls |-> 0, detailCalls |-> 0, totalUnits |-> 0]

ensureKeyExists(data, keyIndex) ==
  IF keyIndex \in DOMAIN data THEN data
  ELSE [k \in (DOMAIN data) \cup {keyIndex} |->
          IF k = keyIndex THEN EmptyUsage ELSE data[k]]

\* a tracker that counts a search call twice
trackSearchCall_twice(data, keyIndex) ==
  LET d == ensureKeyExists(data, keyIndex) IN
    [d EXCEPT ![keyIndex] = [@ EXCEPT !.searchCalls = @ + 2, !.totalUnits = @ + 2 * SearchUnits]]

trackSearchCall(data, keyIndex) ==
  LET d == ensureKeyExists(data, keyIndex) IN
    [d EXCEPT ![keyIndex].searchCalls = @ + 1,
              ![keyIndex].totalUnits = @ + SearchUnits]

\* variant: a detail call costs one unit whatever its video count
trackDetailCall_flat(data, keyIndex, videoCount) ==
  LET d == ensureKeyExists(data, keyIndex) IN
    [d EXCEPT ![keyIndex].detailCalls = @ + 1,
              ![keyIndex].totalUnits = @ + 1]

trackDetailCall(data, keyIndex, videoCount) ==
  LET d == ensureKeyExists(data, keyIndex) IN
    [d EXCEPT ![keyIndex].detailCalls = @ + 1,
              ![keyIndex].totalUnits = @ + videoCount]

RECURSIVE SumUnits(_, _)
SumUnits(data, keys) ==
  IF keys = {} THEN 0
  ELSE LET k == CHOOSE x \in keys : TRUE IN
         data[k].totalUnits + SumUnits(data, keys \ {k})

RECURSIVE SumSearchCalls(_, _)
SumSearchCalls(data, keys) ==
  IF keys = {} THEN 0
  ELSE LET k == CHOOSE x \in keys : TRUE IN
         data[k].searchCalls + SumSearchCalls(data, keys \ {k})

usageOf(data, i) == IF i \in DOMAIN data THEN data[i] ELSE EmptyUsage

RECURSIVE usageTotal(_, _)
usageTotal(data, n) ==
  IF n = 0 THEN 0 ELSE usageTotal(data, n - 1) + usageOf(data, n - 1).totalUnits

getTodayUsage(data) ==
  [totalUnits |-> usageTotal(data, UsageKeys),
   byKey |-> [i \in 1..UsageKeys |->
                [keyIndex |-> i - 1,
                 units |-> usageOf(data, i - 1).totalUnits,
                 calls |-> usageOf(data, i - 1).searchCalls + usageOf(data, i - 1).detailCalls]]]

(***************************************************************************)
(* Key rotation.  A key is identified by its position in YOUTUBE_API_KEYS. *)
(***************************************************************************)
\* a rotation that advances the cursor by two
getNextYouTubeAPIKey_skipping(cursor, n) ==
  [key |-> cursor, index |-> (cursor + 2) % n, cursor |-> (cursor + 2) % n]

getNextYouTubeAPIKey(cursor, n) ==
  [key |-> cursor, index |-> (cursor + 1) % n, cursor |-> (cursor + 1) % n]

(***************************************************************************)
(* Cache layer.                                                            *)
(***************************************************************************)
cacheIndex(cache, k) ==
  IF \E i \in 1..Len(cache) : cache[i].key = k
  THEN CHOOSE i \in 1..Len(cache) : cache[i].key = k
  ELSE 0

\* a look-up that still serves an entry at the age of CACHE_DURATION
getCachedSearch_inclusive(cache, query, t) ==
  LET i == cacheIndex(cache, cacheKeyOf(query)) IN
    IF i # 0 /\ t - cache[i].timestamp <= CACHE_DURATION
    THEN [hit |-> TRUE, data |-> cache[i].data]
    ELSE [hit |-> FALSE, data |-> <<>>]

getCachedSearch(cache, query, t) ==
  LET i == cacheIndex(cache, cacheKeyOf(query)) IN
    IF i # 0 /\ t - cache[i].timestamp < CACHE_DURATION
    THEN [hit |-> TRUE, data |-> cache[i].data]
    ELSE [hit |-> FALSE, data |-> <<>>]

\* a store that moves an overwritten entry to the end of the order
setCachedSearch_refreshing(cache, query, data, t) ==
  LET k == cacheKeyOf(query)
      e == [key |-> k, data |-> data, timestamp |-> t]
      stored == Append(SelectSeq(cache, LAMBDA c : c.key # k), e)
  IN IF Len(stored) > CacheCeiling THEN Tail(stored) ELSE stored

setCachedSearch(cache, query, data, t) ==
  LET k == cacheKeyOf(query)
      i == cacheIndex(cache, k)
      e == [key |-> k, data |-> data, timestamp |-> t]
      stored == IF i # 0 THEN [cache EXCEPT ![i] = e] ELSE Append(cache, e)
  IN IF Len(stored) > CacheCeiling THEN Tail(stored) ELSE stored

(***************************************************************************)
(* String search: String.prototype.includes and split(' ').                *)
(***************************************************************************)
includes(s, sub) ==
  \E i \in 0..(Len(s) - Len(sub)) : SubSeq(s, i + 1, i + Len(sub)) = sub

RECURSIVE splitFrom(_, _, _)
splitFrom(s, i, word) ==
  IF i > Len(s) THEN <<word>>
  ELSE IF s[i] = " " THEN <<word>> \o splitFrom(s, i + 1, <<>>)
  ELSE splitFrom(s, i + 1, Append(word, s[i]))

splitSpaces(s) == splitFrom(s, 1, <<>>)

RECURSIVE filterLong(_)
filterLong(words) ==
  IF words = <<>> THEN <<>>
  ELSE IF Len(Head(words)) > 2 THEN <<Head(words)>> \o filterLong(Tail(words))
  ELSE filterLong(Tail(words))

(***************************************************************************)
(* parseDuration.  An ISO-8601 duration is a sequence of tokens: a letter  *)
(* or a run of digits.                                                     *)
(***************************************************************************)
L(c) == [c |-> c, n |-> 0]
N(n) == [c |-> "#", n |-> n]

isNumberBefore(d, p, letter) ==
  p + 1 <= Len(d) /\ d[p].c = "#" /\ d[p + 1].c = letter

parseDuration(d) ==
  IF ~ \E i \in 1..(Len(d) - 1) : d[i].c = "P" /\ d[i + 1].c = "T" THEN 0
  ELSE
    LET i0 == CHOOSE i \in 1..(Len(d) - 1) :
                /\ d[i].c = "P" /\ d[i + 1].c = "T"
                /\ \A j \in 1..(i - 1) : ~(d[j].c = "P" /\ d[j + 1].c = "T")
        pH == i0 + 2
        hasH == isNumberBefore(d, pH, "H")
        hours == IF hasH THEN d[pH].n ELSE 0
        pM == IF hasH THEN pH + 2 ELSE pH
        hasM == isNumberBefore(d, pM, "M")
        minutes == IF hasM THEN d[pM].n ELSE 0
        pS == IF hasM THEN pM + 2 ELSE pM
        hasS == isNumberBefore(d, pS, "S")
        seconds == IF hasS THEN d[pS].n ELSE 0
    IN hours * 3600 + minutes * 60 + seconds

(***************************************************************************)
(* calculateRecencyScore, in ten-thousandths.                              *)
(***************************************************************************)
calculateRecencyScore(daysDiff) ==
  IF daysDiff <= 30 THEN 10000
  ELSE IF daysDiff >= 730 THEN 1000
  ELSE LET v == 10000 - ((daysDiff - 30) * 9000) \div 700
       IN IF v < 1000 THEN 1000 ELSE v

(***************************************************************************)
(* The videos the external API knows: what the details call returns for    *)
(* each identifier.                                                        *)
(***************************************************************************)
w_art == <<"a", "r", "t">>
w_go == <<"g", "o">>
w_guide == <<"g", "u", "i", "d", "e">>
w_deep == <<"d", "e", "e", "p">>
w_master == <<"m", "a", "s", "t", "e", "r">>
w_advanced == <<"a", "d", "v", "a", "n", "c", "e", "d">>
w_expert == <<"e", "x", "p", "e", "r", "t">>
w_complete == <<"c", "o", "m", "p", "l", "e", "t", "e">>
w_comprehensive == <<"c", "o", "m", "p", "r", "e", "h", "e", "n", "s", "i", "v", "e">>
w_intermediate == <<"i", "n", "t", "e", "r", "m", "e", "d", "i", "a", "t", "e">>
w_tutorial == <<"t", "u", "t", "o", "r", "i", "a", "l">>
w_course == <<"c", "o", "u", "r", "s", "e">>
w_stepbystep == <<"s", "t", "e", "p", " ", "b", "y", " ", "s", "t", "e", "p">>
w_buildingon == <<"b", "u", "i", "l", "d", "i", "n", "g", " ", "o", "n">>
w_nextlevel == <<"n", "e", "x", "t", " ", "l", "e", "v", "e", "l">>
sp == <<" ">>

\* one tuple per field, indexed by the video identifier
CatalogTitles ==
  << <<"A", "r", "t">>, w_art \o sp \o w_guide,
     w_deep \o sp \o w_art, w_go,
     w_art, w_art \o sp \o w_master,
     w_go \o sp \o w_art, w_art,
     w_art \o sp \o w_course, w_art \o sp \o w_tutorial,
     w_complete \o sp \o w_art, w_art \o sp \o w_expert >>

CatalogDescriptions ==
  << <<>>, w_go, <<>>, w_art, <<>>, <<>>,
     w_advanced, <<>>, <<>>, <<>>, <<>>, <<>> >>

CatalogDurations ==
  << <<L("P"), L("T"), N(2), L("M")>>,
     <<L("P"), L("T"), N(20), L("M")>>,
     <<L("P"), L("T"), N(1), L("H")>>,
     <<L("P"), L("T"), N(1), L("M"), N(59), L("S")>>,
     <<L("P"), L("T"), N(1), L("H"), N(0), L("M"), N(1), L("S")>>,
     <<L("P"), L("T"), N(45), L("M")>>,
     <<L("P"), L("T"), N(3), L("M")>>,
     <<L("P"), N(1), L("D"), L("T"), N(2), L("M")>>,
     <<L("P"), L("T"), N(10), L("M")>>,
     <<L("P"), L("T"), N(12), L("M")>>,
     <<L("P"), L("T"), N(30), L("M")>>,
     <<L("P"), L("T"), N(50), L("M")>> >>

CatalogAgeDays ==
  << 10, 400, 800, 5, 5, 60, 200, 1, 20, 100, 1000, 300 >>

CatalogViewCounts ==
  << 2000000, 50000, 700000, 10, 10, 900, 123456, 5, 300000, 4000, 1500000, 80000 >>

VideoIds == DOMAIN CatalogTitles

durationSeconds(id) == parseDuration(CatalogDurations[id])
recencyScore(id) == calculateRecencyScore(CatalogAgeDays[id])
viewShare(id) ==
  LET v == CatalogViewCounts[id] \div 100 IN IF v > 10000 THEN 10000 ELSE v

(***************************************************************************)
(* The comparators handed to Array.prototype.sort.                         *)
(***************************************************************************)
compositeScore(v) ==
  v.relevanceScore * 100 * 60 + recencyScore(v.id) * 25 + viewShare(v.id) * 15

compositeCmp(a, b) ==
  LET d == compositeScore(a) - compositeScore(b) IN
    IF d > 50000 \/ d < -50000 THEN compositeScore(b) - compositeScore(a)
    ELSE recencyScore(b.id) - recencyScore(a.id)

relevanceCmp(a, b) == b.relevanceScore - a.relevanceScore

CloseRelevance == 20

progressionCmp(a, b) ==
  LET d == a.relevanceScore - b.relevanceScore IN
    IF d > CloseRelevance \/ d < -CloseRelevance
    THEN b.relevanceScore - a.relevanceScore
    ELSE a.difficultyScore - b.difficultyScore

difficultyCmp(a, b) == a.difficultyScore - b.difficultyScore

compareFn(name, a, b) ==
  CASE name = "composite" -> compositeCmp(a, b)
    [] name = "relevance" -> relevanceCmp(a, b)
    [] name = "progression" -> progressionCmp(a, b)
    [] name = "difficulty" -> difficultyCmp(a, b)

(***************************************************************************)
(* Array.prototype.sort.  With a consistent comparator the result is the   *)
(* stable sort; with an inconsistent one the order is implementation       *)
(* defined, so every permutation is a possible result.                     *)
(***************************************************************************)
RECURSIVE PermSeqs(_)
PermSeqs(S) ==
  IF S = {} THEN {<<>>}
  ELSE UNION {{<<x>> \o p : p \in PermSeqs(S \ {x})} : x \in S}

\* the pairs of positions of s that the comparator orders first-before-second,
\* and second-before-first
before(s, cmp) ==
  UNION {IF compareFn(cmp, s[p[1]], s[p[2]]) < 0 THEN {p} ELSE {} : p \in (1..Len(s)) \X (1..Len(s))}

after(s, cmp) ==
  UNION {IF compareFn(cmp, s[p[1]], s[p[2]]) > 0 THEN {p} ELSE {} : p \in (1..Len(s)) \X (1..Len(s))}

Consistent(s, cmp) ==
  LET lt == before(s, cmp)
      gt == after(s, cmp)
      ne == lt \cup gt
  IN \A i, j \in 1..Len(s) :
       /\ <<i, i>> \notin ne
       /\ (<<i, j>> \in lt) = (<<j, i>> \in gt)
       /\ \A k \in 1..Len(s) :
            /\ (<<i, j>> \notin ne /\ <<j, k>> \notin ne) => <<i, k>> \notin ne
            /\ (<<i, j>> \in lt /\ <<j, k>> \in lt) => <<i, k>> \in lt

StableSort(s, cmp) ==
  LET n == Len(s)
      lt == before(s, cmp)
      gt == after(s, cmp)
      first == UNION {IF p \in lt \/ (p \notin gt /\ p[1] < p[2]) THEN {p} ELSE {} :
                        p \in (1..n) \X (1..n)}
  IN [k \in 1..n |->
        s[CHOOSE i \in 1..n : Cardinality({j \in 1..n : <<j, i>> \in first}) = k - 1]]

SortOutcomes(array, cmp) ==
  UNION { IF Consistent(s, cmp) THEN {StableSort(s, cmp)}
          ELSE {[k \in 1..Len(s) |-> s[p[k]]] : p \in PermSeqs(1..Len(s))} :
          s \in {array} }

slice(s, n) == SubSeq(s, 1, IF Len(s) < n THEN Len(s) ELSE n)

clamp(lo, hi, v) == IF v < lo THEN lo ELSE IF v > hi THEN hi ELSE v

RECURSIVE dedupe(_, _)
dedupe(s, seen) ==
  IF s = <<>> THEN <<>>
  ELSE IF Head(s) \in seen THEN dedupe(Tail(s), seen)
  ELSE <<Head(s)>> \o dedupe(Tail(s), seen \cup {Head(s)})

(***************************************************************************)
(* processYouTubeResults: the stages after the details call.               *)
(***************************************************************************)
MinDuration == 120
MaxDuration == 3600
batchSize == 12
MaxReturned == 8
HighRelevance == 80
MediumRelevance == 60
DefaultScore == 10

uniqueResultsOf(allVideos) == dedupe(allVideos, {})

inBand(id) == durationSeconds(id) >= MinDuration /\ durationSeconds(id) <= MaxDuration

\* variant: no duration filter
processedVideosOf_unfiltered(items) == items

processedVideosOf(items) == SelectSeq(items, inBand)

Scored(id, score) == [id |-> id, relevanceScore |-> score, difficultyScore |-> 0]

\* scores[i] || 0.1, clamped into [0, 1]
aiScore(scores, i) ==
  clamp(0, 100, IF i <= Len(scores) /\ scores[i] # 0 THEN scores[i] ELSE DefaultScore)

scoreWithAI(processedVideos, scores) ==
  LET videosToProcess == slice(processedVideos, batchSize) IN
    [i \in 1..Len(videosToProcess) |-> Scored(videosToProcess[i], aiScore(scores, i))]

wordsInTitle(title, topicWords) ==
  Cardinality({i \in 1..Len(topicWords) : includes(title, topicWords[i])})

\* the catch branch: "enhanced keyword matching"
enhancedKeywordScore(id, query) ==
  LET title == toLowerCase(CatalogTitles[id])
      description == toLowerCase(CatalogDescriptions[id])
      topicLower == toLowerCase(query)
      topicWords == filterLong(splitSpaces(topicLower))
      hasAllKeywords == \A i \in 1..Len(topicWords) :
                          includes(title, topicWords[i]) \/ includes(description, topicWords[i])
  IN IF hasAllKeywords
     THEN (IF includes(title, topicLower) THEN 90 ELSE 0) + 30 * wordsInTitle(title, topicWords)
     ELSE 0

\* the branch taken without a language-model key: "basic keyword matching"
basicKeywordScore(id, query) ==
  LET title == toLowerCase(CatalogTitles[id])
      topicLower == toLowerCase(query)
      topicWords == filterLong(splitSpaces(topicLower))
  IN IF includes(title, topicLower) THEN 90
     ELSE IF Len(topicWords) > 0
          THEN (wordsInTitle(title, topicWords) * 70) \div Len(topicWords)
          ELSE 0

\* variant: candidates whose keyword score leaves [0, 1] are not kept
scoreWithEnhancedKeywords_capped(processedVideos, query) ==
  LET vs == slice(processedVideos, batchSize) IN
    SelectSeq([i \in 1..Len(vs) |-> Scored(vs[i], enhancedKeywordScore(vs[i], query))],
              LAMBDA v : v.relevanceScore <= 100)

scoreWithEnhancedKeywords(processedVideos, query) ==
  LET vs == slice(processedVideos, batchSize) IN
    [i \in 1..Len(vs) |-> Scored(vs[i], enhancedKeywordScore(vs[i], query))]

scoreWithBasicKeywords(processedVideos, query) ==
  LET vs == slice(processedVideos, batchSize) IN
    [i \in 1..Len(vs) |-> Scored(vs[i], basicKeywordScore(vs[i], query))]

atLeast(scoredVideos, threshold) ==
  SelectSeq(scoredVideos, LAMBDA v : v.relevanceScore >= threshold)

bestAvailableCount(n) ==
  LET m == IF n < MaxReturned THEN n ELSE MaxReturned IN IF m < 3 THEN 3 ELSE m

\* a selection that never relaxes the 0.8 threshold
selectRelevantVideos_strictOnly(scoredVideos) ==
  {slice(s, MaxReturned) : s \in SortOutcomes(atLeast(scoredVideos, HighRelevance), "composite")}

\* the threshold cascade at the end of processYouTubeResults; a set because
\* of the sorts
selectRelevantVideos(scoredVideos) ==
  LET high == atLeast(scoredVideos, HighRelevance)
      medium == atLeast(scoredVideos, MediumRelevance)
  IN IF Len(high) >= 3
     THEN {slice(s, MaxReturned) : s \in SortOutcomes(high, "composite")}
     ELSE IF Len(medium) >= 3
     THEN {slice(s, MaxReturned) : s \in SortOutcomes(medium, "composite")}
     ELSE {slice(slice(s, bestAvailableCount(Len(scoredVideos))), MaxReturned) :
             s \in SortOutcomes(scoredVideos, "relevance")}

(***************************************************************************)
(* optimizeLearningPath and generateLearningPath.                          *)
(***************************************************************************)
Tiers == <<10, 20, 30>>
PathLength == 3
LongVideo == 1800
MediumVideo == 900
RECURSIVE dedupeById(_, _)
dedupeById(videos, seen) ==
  IF videos = <<>> THEN <<>>
  ELSE IF Head(videos).id \in seen THEN dedupeById(Tail(videos), seen)
  ELSE <<Head(videos)>> \o dedupeById(Tail(videos), seen \cup {Head(videos).id})

\* difficulties[i] || 1, clamped into [1, 3]
aiDifficulty(difficulties, i) ==
  clamp(10, 30, IF i <= Len(difficulties) /\ difficulties[i] # 0 THEN difficulties[i] ELSE 10)

classifyWithAI(deduplicatedVideos, difficulties) ==
  [i \in 1..Len(deduplicatedVideos) |->
     [deduplicatedVideos[i] EXCEPT !.difficultyScore = aiDifficulty(difficulties, i)]]

\* the catch branch: "fallback keyword analysis"
enhancedDifficulty(id) ==
  LET title == toLowerCase(CatalogTitles[id])
      description == toLowerCase(CatalogDescriptions[id])
  IN IF \/ includes(title, w_advanced) \/ includes(title, w_master) \/ includes(title, w_expert)
        \/ includes(title, w_complete) \/ includes(title, w_comprehensive) \/ includes(title, w_deep)
        \/ includes(description, w_advanced) \/ includes(description, w_comprehensive)
        \/ durationSeconds(id) > LongVideo
     THEN 30
     ELSE IF \/ includes(title, w_intermediate) \/ includes(title, w_guide)
             \/ includes(title, w_tutorial) \/ includes(title, w_course)
             \/ includes(title, w_stepbystep)
             \/ includes(description, w_buildingon) \/ includes(description, w_nextlevel)
             \/ durationSeconds(id) > MediumVideo
     THEN 20
     ELSE 10

\* the branch taken without a language-model key: "basic keyword analysis"
basicDifficulty(id) ==
  LET title == toLowerCase(CatalogTitles[id]) IN
    IF \/ includes(title, w_advanced) \/ includes(title, w_master) \/ includes(title, w_expert)
       \/ durationSeconds(id) > LongVideo
    THEN 30
    ELSE IF \/ includes(title, w_intermediate) \/ includes(title, w_tutorial)
            \/ durationSeconds(id) > MediumVideo
    THEN 20
    ELSE 10

classifyWithEnhancedKeywords(deduplicatedVideos) ==
  [i \in 1..Len(deduplicatedVideos) |->
     [deduplicatedVideos[i] EXCEPT !.difficultyScore = enhancedDifficulty(deduplicatedVideos[i].id)]]

classifyWithBasicKeywords(deduplicatedVideos) ==
  [i \in 1..Len(deduplicatedVideos) |->
     [deduplicatedVideos[i] EXCEPT !.difficultyScore = basicDifficulty(deduplicatedVideos[i].id)]]

idsOf(videos) == {videos[i].id : i \in 1..Len(videos)}

\* one iteration of the first pass
pickAtLevel(selectedVideos, sortedVideos, targetDifficulty) ==
  LET found == {i \in 1..Len(sortedVideos) :
                  /\ sortedVideos[i].difficultyScore = targetDifficulty
                  /\ sortedVideos[i].id \notin idsOf(selectedVideos)}
  IN IF found # {} /\ Len(selectedVideos) < PathLength
     THEN Append(selectedVideos, sortedVideos[CHOOSE i \in found : \A j \in found : i <= j])
     ELSE selectedVideos

\* variant: no pass by level, the selection is filled by rank alone
firstPass_none(sortedVideos) == <<>>

firstPass(sortedVideos) ==
  pickAtLevel(pickAtLevel(pickAtLevel(<<>>, sortedVideos, Tiers[1]),
                          sortedVideos, Tiers[2]),
              sortedVideos, Tiers[3])

RECURSIVE secondPass(_, _, _)
secondPass(selectedVideos, sortedVideos, i) ==
  IF i > Len(sortedVideos) THEN selectedVideos
  ELSE IF sortedVideos[i].id \notin idsOf(selectedVideos) /\ Len(selectedVideos) < PathLength
  THEN secondPass(Append(selectedVideos, sortedVideos[i]), sortedVideos, i + 1)
  ELSE secondPass(selectedVideos, sortedVideos, i + 1)

\* from the sort by relevance and difficulty to the returned selection
selectProgression(categorizedVideos) ==
  UNION { SortOutcomes(secondPass(firstPass(sortedVideos), sortedVideos, 1), "difficulty") :
            sortedVideos \in SortOutcomes(categorizedVideos, "progression") }

\* true when optimizeLearningPath returns before any classification
returnsEarly(videos) == Len(videos) <= 2

\* the map at the end of generateLearningPath
finalVideosOf(optimizedVideos) ==
  [i \in 1..Len(optimizedVideos) |->
     [youtubeId |-> optimizedVideos[i].id,
      level |-> i,
      relevanceScore |-> optimizedVideos[i].relevanceScore,
      difficultyScore |-> IF optimizedVideos[i].difficultyScore = 0 THEN 10
                          ELSE optimizedVideos[i].difficultyScore]]

(***************************************************************************)
(* POST /api/search.  A request is at one of its await points:             *)
(*   "search"     awaiting the response of the search call                 *)
(*   "details"    awaiting the response of the details call                *)
(*   "score"      awaiting the language model's relevance scores           *)
(*   "difficulty" awaiting the language model's difficulty levels          *)
(*   "persist"    awaiting clearVideosByTopic                              *)
(*   "save"       awaiting saveVideos                                      *)
(*   "analytics"  awaiting the recording of the search analytics           *)
(* "done" is a request whose response has been sent.                       *)
(***************************************************************************)
NoUsage == [k \in {} |-> EmptyUsage]

IdleRequest ==
  [pc |-> "idle", query |-> <<>>, attempt |-> 0, currentAPIKey |-> 0, keyIndex |-> 0,
   uniqueResults |-> <<>>, processedVideos |-> <<>>, videos |-> <<>>,
   apiKeyUsed |-> -1, quotaConsumed |-> 0,
   status |-> "none", error |-> "none", learningPath |-> <<>>,
   calls |-> 0, tried |-> {}, allQuota |-> TRUE, solo |-> TRUE, cacheHit |-> FALSE,
   sessionId |-> "", analytics |-> "none", billable |-> 0,
   detailsKey |-> -1, detailsIndex |-> -1,
   overtaken |-> FALSE,   \* history: the cursor moved while the search call was in flight
   searchCallsBefore |-> 0, tiers |-> {}, scored |-> 0, classified |-> 0]

Active(rq) == rq.pc \notin {"idle", "done"}

\* the catch block of the route is entered with the error: with a session
\* id the failed search is recorded first, without one the 500 is sent at once
Fail(rq, err) ==
  [rq EXCEPT !.pc = IF rq.sessionId = "" THEN "done" ELSE "analytics",
             !.status = IF rq.sessionId = "" THEN "error" ELSE "none",
             !.error = err,
             !.uniqueResults = <<>>, !.processedVideos = <<>>, !.videos = <<>>]

\* the path is ready: clear the topic's stored videos and save the new ones
ToPersist(rq, optimizedVideos) ==
  [rq EXCEPT !.pc = "persist", !.learningPath = finalVideosOf(optimizedVideos),
             !.uniqueResults = <<>>, !.processedVideos = <<>>, !.videos = <<>>]

\* history: the difficulty scores found among the classified candidates
Classified(rq, categorizedVideos) ==
  [rq EXCEPT !.tiers = {categorizedVideos[i].difficultyScore : i \in 1..Len(categorizedVideos)},
             !.classified = Len(categorizedVideos)]

\* variant: the loop stops one attempt early
loopTop_oneShort(rq, a, cursor, n) ==
  IF a < n - 1
  THEN LET apiKeyInfo == getNextYouTubeAPIKey(cursor, n) IN
         [rq |-> [rq EXCEPT !.pc = "search", !.attempt = a,
                            !.currentAPIKey = apiKeyInfo.key,
                            !.keyIndex = apiKeyInfo.index,
                            !.detailsKey = -1, !.detailsIndex = -1, !.overtaken = FALSE],
          cursor |-> apiKeyInfo.cursor]
  ELSE [rq |-> Fail(rq, "DAILY_LIMIT_REACHED"), cursor |-> cursor]

\* the head of the for loop of searchYouTubeVideos, with attempt = a
loopTop(rq, a, cursor, n) ==
  IF a < n
  THEN LET apiKeyInfo == getNextYouTubeAPIKey(cursor, n) IN
         [rq |-> [rq EXCEPT !.pc = "search", !.attempt = a,
                            !.currentAPIKey = apiKeyInfo.key,
                            !.keyIndex = apiKeyInfo.index,
                            !.detailsKey = -1, !.detailsIndex = -1, !.overtaken = FALSE],
          cursor |-> apiKeyInfo.cursor]
  ELSE [rq |-> Fail(rq, "DAILY_LIMIT_REACHED"), cursor |-> cursor]

\* a catch block that issues the failed attempt's search call again
catchError_sameKey(rq, err, cursor, n) ==
  [rq |-> [rq EXCEPT !.pc = "search"], cursor |-> cursor]

\* the catch block of searchYouTubeVideos
catchError(rq, err, cursor, n) ==
  IF rq.attempt < n - 1
  THEN loopTop(rq, rq.attempt + 1, cursor, n)
  ELSE [rq |-> Fail(rq, err), cursor |-> cursor]

\* the error thrown for a non-2xx search response that is not quotaExceeded
mappedError(kind) ==
  CASE kind = "denied" -> "ACCESS_DENIED"
    [] kind = "badkey" -> "INVALID_KEY"
    [] OTHER -> "API_ERROR"

\* generateLearningPath up to its first await, or to its end
afterSearch(rq, videos) ==
  IF videos = <<>> THEN {Fail(rq, "NO_VIDEOS")}
  ELSE IF returnsEarly(videos) THEN {ToPersist(rq, videos)}
  ELSE LET deduplicatedVideos == dedupeById(videos, {}) IN
         IF openaiConfigured /\ Len(deduplicatedVideos) > 0
         THEN {[rq EXCEPT !.pc = "difficulty", !.videos = deduplicatedVideos,
                          !.uniqueResults = <<>>, !.processedVideos = <<>>]}
         ELSE {ToPersist(Classified(rq, classifyWithBasicKeywords(deduplicatedVideos)), p) :
                 p \in selectProgression(classifyWithBasicKeywords(deduplicatedVideos))}

\* the return of searchYouTubeVideos after a fetch
returned(rq, results) ==
  [rq EXCEPT !.apiKeyUsed = rq.keyIndex, !.quotaConsumed = SearchUnits + Len(results)]

Configured ==
  /\ openaiConfigured \in BOOLEAN
  /\ currentKeyIndex = 0
  /\ searchCache = <<>>
  /\ quota = NoUsage
  /\ detailUnits = [k \in 0..(MaxPoolSize - 1) |-> 0]
  /\ now = 0
  /\ storedVideos = {} /\ bookmarks = <<>> /\ searchResults = <<>> /\ history = <<>>
  /\ req = [r \in Requests |-> IdleRequest]

\* one request at a time: several requests on a small pool, or a single one
\* on a larger pool without the language model
Init ==
  /\ Configured
  /\ parallel = 1
  /\ \/ remaining = MaxStarts /\ numKeys \in 0..SharedPool
     \/ remaining = 1 /\ numKeys \in (SharedPool + 1)..MaxPoolSize /\ ~openaiConfigured

\* requests overlap on a small pool
InitConcurrent ==
  /\ Configured
  /\ openaiConfigured
  /\ parallel = Cardinality(Requests)
  /\ remaining = MaxStarts
  /\ numKeys = SharedPool

\* a request arrives: validation, cache check, and on a miss the first attempt
Start(r, query) ==
  /\ ~Active(req[r])
  /\ remaining > 0
  /\ Cardinality({o \in Requests : Active(req[o])}) < parallel
  /\ remaining' = remaining - 1
  /\ LET fresh == [IdleRequest EXCEPT !.query = query,
                     !.sessionId = IF query = <<>> THEN "" ELSE "s",
                     !.solo = \A o \in Requests \ {r} : ~Active(req[o]),
                     !.searchCallsBefore = SumSearchCalls(quota, DOMAIN quota)]
         cachedResult == getCachedSearch(searchCache, query, now)
         \* requests in flight are no longer alone; answered ones are forgotten
         others == [o \in Requests |->
                      IF Active(req[o]) THEN [req[o] EXCEPT !.solo = FALSE] ELSE IdleRequest]
     IN IF query = <<>>
        THEN /\ req' = [others EXCEPT ![r] = Fail(fresh, "VALIDATION")]
             /\ currentKeyIndex' = currentKeyIndex
        ELSE IF cachedResult.hit
        THEN /\ \E next \in afterSearch([fresh EXCEPT !.cacheHit = TRUE], cachedResult.data) :
                  req' = [others EXCEPT ![r] = next]
             /\ currentKeyIndex' = currentKeyIndex
        ELSE LET out == loopTop(fresh, 0, currentKeyIndex, numKeys) IN
               /\ req' = [others EXCEPT ![r] = out.rq]
               /\ currentKeyIndex' = out.cursor
  /\ UNCHANGED <<numKeys, searchCache, quota, detailUnits, now, openaiConfigured, parallel>>
  /\ UNCHANGED <<storedVideos, bookmarks, searchResults, history>>

\* a details call that takes its key from the shared cursor
detailsCall_fromCursor(rq, cursor, n) ==
  [key |-> cursor, index |-> (cursor + 1) % n]

\* processYouTubeResults(allVideos, currentAPIKey, keyIndex, query): the key
\* of the details call and the index it is recorded under are the attempt's
detailsCall(rq, cursor, n) ==
  [key |-> rq.currentAPIKey, index |-> rq.keyIndex]

\* history of the request: search calls answered, keys they used, their answers
Logged(rq, kind) ==
  [rq EXCEPT !.calls = @ + 1, !.tried = @ \cup {rq.currentAPIKey},
             !.allQuota = @ /\ kind = "quota",
             !.billable = @ + (IF kind \in {"ok", "quota"} THEN 1 ELSE 0)]

\* the search call of request r answers
SearchResponse(r, kind, items) ==
  /\ req[r].pc = "search"
  /\ LET rq == Logged(req[r], kind)
         uniqueResults == uniqueResultsOf(items)
         out == CASE kind = "ok" ->
                       IF uniqueResults = <<>>
                       THEN catchError(rq, "NO_VIDEOS_FOUND", currentKeyIndex, numKeys)
                       ELSE [rq |-> [rq EXCEPT !.pc = "details", !.uniqueResults = uniqueResults,
                                       !.detailsKey = detailsCall(rq, currentKeyIndex, numKeys).key,
                                       !.detailsIndex = detailsCall(rq, currentKeyIndex, numKeys).index,
                                       !.overtaken = currentKeyIndex # rq.keyIndex],
                             cursor |-> currentKeyIndex]
                  [] kind = "quota" -> loopTop(rq, rq.attempt + 1, currentKeyIndex, numKeys)
                  [] kind = "neterr" -> catchError(rq, "FETCH_FAILED", currentKeyIndex, numKeys)
                  [] OTHER -> catchError(rq, mappedError(kind), currentKeyIndex, numKeys)
     IN /\ req' = [req EXCEPT ![r] = out.rq]
        /\ currentKeyIndex' = out.cursor
        /\ quota' = IF kind \in {"ok", "quota"} THEN trackSearchCall(quota, rq.keyIndex) ELSE quota
  /\ UNCHANGED <<numKeys, searchCache, detailUnits, now, openaiConfigured, remaining, parallel>>
  /\ UNCHANGED <<storedVideos, bookmarks, searchResults, history>>

\* searchYouTubeVideos returns results: cache them, then go on in the route
FinishSearch(r, rq, scoredVideos) ==
  \E results \in selectRelevantVideos(scoredVideos) :
    /\ searchCache' = setCachedSearch(searchCache, rq.query, results, now)
    /\ \E next \in afterSearch(returned([rq EXCEPT !.scored = Len(scoredVideos)], results), results) :
         req' = [req EXCEPT ![r] = next]

\* the details call of request r answers
DetailsResponse(r, ok) ==
  /\ req[r].pc = "details"
  /\ LET rq == req[r]
         items == slice(rq.uniqueResults, 15)
         processedVideos == processedVideosOf(items)
     IN IF ~ok
        THEN LET out == catchError(rq, "DETAILS_FAILED", currentKeyIndex, numKeys) IN
               /\ req' = [req EXCEPT ![r] = out.rq]
               /\ currentKeyIndex' = out.cursor
               /\ UNCHANGED <<quota, detailUnits, searchCache>>
        ELSE /\ quota' = trackDetailCall(quota, rq.detailsIndex, Len(rq.uniqueResults))
             /\ detailUnits' = [detailUnits EXCEPT ![rq.detailsIndex] = @ + Len(rq.uniqueResults)]
             /\ currentKeyIndex' = currentKeyIndex
             /\ IF openaiConfigured /\ Len(processedVideos) > 0
                THEN /\ req' = [req EXCEPT ![r] = [rq EXCEPT !.pc = "score",
                                                     !.processedVideos = processedVideos]]
                     /\ searchCache' = searchCache
                ELSE FinishSearch(r, rq, scoreWithBasicKeywords(processedVideos, rq.query))
  /\ UNCHANGED <<numKeys, now, openaiConfigured, remaining, parallel>>
  /\ UNCHANGED <<storedVideos, bookmarks, searchResults, history>>

\* the language model answers the relevance prompt, or the call fails
RelevanceResponse(r, ok, scores) ==
  /\ req[r].pc = "score"
  /\ LET rq == req[r] IN
       FinishSearch(r, rq, IF ok THEN scoreWithAI(rq.processedVideos, scores)
                           ELSE scoreWithEnhancedKeywords(rq.processedVideos, rq.query))
  /\ UNCHANGED <<numKeys, currentKeyIndex, quota, detailUnits, now, openaiConfigured, remaining, parallel>>
  /\ UNCHANGED <<storedVideos, bookmarks, searchResults, history>>

\* the language model answers the difficulty prompt, or the call fails
DifficultyResponse(r, ok, difficulties) ==
  /\ req[r].pc = "difficulty"
  /\ LET rq == req[r]
         categorizedVideos == IF ok THEN classifyWithAI(rq.videos, difficulties)
                              ELSE classifyWithEnhancedKeywords(rq.videos)
     IN \E p \in selectProgression(categorizedVideos) :
          req' = [req EXCEPT ![r] = ToPersist(Classified(rq, categorizedVideos), p)]
  /\ UNCHANGED <<numKeys, currentKeyIndex, searchCache, quota, detailUnits, now,
                 openaiConfigured, remaining, parallel>>
  /\ UNCHANGED <<storedVideos, bookmarks, searchResults, history>>

\* DatabaseStorage.clearVideosByTopic
clearVideosByTopic(rows, topic) == {v \in rows : v.topic # topic}

\* the serial primary key: the next value is above every row's
nextId(rows) ==
  IF rows = {} THEN 1 ELSE 1 + CHOOSE n \in {v.id : v \in rows} : \A v \in rows : v.id <= n

\* DatabaseStorage.saveVideos
saveVideos(rows, insertVideos, topic) ==
  rows \cup {[id |-> nextId(rows) + i - 1, youtubeId |-> insertVideos[i].youtubeId, topic |-> topic] :
               i \in 1..Len(insertVideos)}

\* DatabaseStorage.getVideoByYouTubeId: a row, or null
getVideoByYouTubeId(rows, youtubeId) == {v \in rows : v.youtubeId = youtubeId}

\* await storage.clearVideosByTopic(query) answers; a failure fails the
\* request
ClearVideos(r, ok) ==
  /\ req[r].pc = "persist"
  /\ req' = [req EXCEPT ![r] =
               IF ok THEN [req[r] EXCEPT !.pc = "save"]
               ELSE [Fail(req[r], "STORAGE_FAILED") EXCEPT !.learningPath = <<>>]]
  /\ storedVideos' = IF ok THEN clearVideosByTopic(storedVideos, req[r].query) ELSE storedVideos
  /\ UNCHANGED <<numKeys, currentKeyIndex, searchCache, quota, detailUnits, now,
                 openaiConfigured, remaining, parallel>>
  /\ UNCHANGED <<bookmarks, searchResults, history>>

\* await storage.saveVideos(learningPath) answers; a failure fails the request
SaveVideos(r, ok) ==
  /\ req[r].pc = "save"
  /\ req' = [req EXCEPT ![r] =
               IF ok THEN [req[r] EXCEPT !.pc = "analytics"]
               ELSE [Fail(req[r], "STORAGE_FAILED") EXCEPT !.learningPath = <<>>]]
  /\ storedVideos' = IF ok THEN saveVideos(storedVideos, req[r].learningPath, req[r].query)
                     ELSE storedVideos
  /\ UNCHANGED <<numKeys, currentKeyIndex, searchCache, quota, detailUnits, now,
                 openaiConfigured, remaining, parallel>>
  /\ UNCHANGED <<bookmarks, searchResults, history>>

\* AnalyticsService.recordSearchAnalytics with a failing storage call: the
\* error would reach the caller
recordSearchAnalytics_rethrows(storageOk) ==
  [rejected |-> ~storageOk, outcome |-> IF storageOk THEN "recorded" ELSE "failed"]

\* AnalyticsService.recordSearchAnalytics: a storage failure is logged inside
recordSearchAnalytics(storageOk) ==
  [rejected |-> FALSE, outcome |-> IF storageOk THEN "recorded" ELSE "failed"]

\* the try block around the duplicate look-up and the recording on the
\* success path: whatever is thrown inside is caught and logged
recordUnlessDuplicate(lookup, storageOk) ==
  IF lookup = "fails" THEN [caught |-> TRUE, outcome |-> "failed"]
  ELSE IF lookup = "recent" THEN [caught |-> FALSE, outcome |-> "duplicate"]
  ELSE [caught |-> recordSearchAnalytics(storageOk).rejected,
        outcome |-> recordSearchAnalytics(storageOk).outcome]

\* the analytics of request r are attempted, then the response is sent; on
\* the failure path the recording is awaited inside the catch block, so a
\* rejection there would leave the request without a response
Analytics(r, lookup, storageOk) ==
  /\ req[r].pc = "analytics"
  /\ req' = [req EXCEPT ![r] =
               IF req[r].error = "none"
               THEN [req[r] EXCEPT !.pc = "done", !.status = "ok",
                       !.analytics = recordUnlessDuplicate(lookup, storageOk).outcome]
               ELSE IF recordSearchAnalytics(storageOk).rejected
                    THEN [req[r] EXCEPT !.pc = "done", !.status = "unanswered",
                            !.analytics = recordSearchAnalytics(storageOk).outcome]
                    ELSE [req[r] EXCEPT !.pc = "done", !.status = "error",
                            !.analytics = recordSearchAnalytics(storageOk).outcome]]
  /\ UNCHANGED <<numKeys, currentKeyIndex, searchCache, quota, detailUnits, now,
                 openaiConfigured, remaining, parallel>>
  /\ UNCHANGED <<storedVideos, bookmarks, searchResults, history>>

Lookups == {"fails", "recent", "none"}

Tick(step) ==
  /\ now + step <= MaxNow
  /\ now' = now + step
  /\ UNCHANGED <<numKeys, currentKeyIndex, searchCache, quota, detailUnits,
                 openaiConfigured, remaining, parallel, req>>
  /\ UNCHANGED <<storedVideos, bookmarks, searchResults, history>>

AllQueries == Queries \cup {<<>>}
RelevanceAnswers == { <<>>, <<90, 85, 95>>, <<90, 65, 150>> }
DifficultyAnswers == { <<>>, <<10, 20, 30>>, <<30, 25, 20>>, <<50, 10, 10>> }

NextWith(slots, queries, itemLists, kinds, relevanceAnswers, difficultyAnswers, lookups, storageAnswers) ==
  \/ \E r \in slots, q \in queries : Start(r, q)
  \/ \E r \in slots, items \in itemLists : SearchResponse(r, "ok", items)
  \/ \E r \in slots, kind \in kinds : SearchResponse(r, kind, <<>>)
  \/ \E r \in slots, ok \in BOOLEAN : DetailsResponse(r, ok)
  \/ \E r \in slots, scores \in relevanceAnswers : RelevanceResponse(r, TRUE, scores)
  \/ \E r \in slots : RelevanceResponse(r, FALSE, <<>>)
  \/ \E r \in slots, difficulties \in difficultyAnswers : DifficultyResponse(r, TRUE, difficulties)
  \/ \E r \in slots : DifficultyResponse(r, FALSE, <<>>)
  \/ \E r \in slots, ok \in storageAnswers : ClearVideos(r, ok)
  \/ \E r \in slots, ok \in storageAnswers : SaveVideos(r, ok)
  \/ \E r \in slots, lookup \in lookups, storageOk \in storageAnswers : Analytics(r, lookup, storageOk)
  \/ \E step \in TickSteps : Tick(step)

\* requests that do not overlap are served one after the other in one slot
Next == NextWith({"a"}, AllQueries, SearchItemLists, SearchKinds \ {"ok"}, RelevanceAnswers, DifficultyAnswers,
                Lookups, BOOLEAN)

Spec == Init /\ [][Next]_vars

\* overlapping requests, with one answer of each shape
NextConcurrent ==
  NextWith(Requests, {<<"A", "r", "t">>}, {<<1, 2, 2, 4, 3>>},
           {"quota", "server"}, {<<90, 85, 95>>}, {<<10, 20, 30>>},
           {"none"}, {TRUE})

SpecConcurrent == InitConcurrent /\ [][NextConcurrent]_vars

(***************************************************************************)
(* Bookmarks: a signed-in user saves the videos of the search the page     *)
(* shows, and restores them later.                                         *)
(***************************************************************************)
MaxBookmarks == 2

\* the user signed in on the page
SignedInUser == "u1"

\* storage.getBookmarkByUserAndQuery
getBookmarkByUserAndQuery(table, userId, query) ==
  {b \in 1..Len(table) : table[b].userId = userId /\ table[b].searchQuery = query}

\* the serial primary key of the bookmarks table
nextBookmarkId(table) ==
  IF table = <<>> THEN 1
  ELSE 1 + CHOOSE n \in {table[b].id : b \in 1..Len(table)} : \A b \in 1..Len(table) : table[b].id <= n

\* the videos of the bookmark that the page gets back, in the bookmark's order
restoredVideos(rows, videoIds) ==
  SelectSeq(videoIds, LAMBDA youtubeId : getVideoByYouTubeId(rows, youtubeId) # {})

\* BookmarkButton.handleBookmark and POST /api/bookmarks, for the answered
\* search the page shows
CreateBookmark(r) ==
  /\ req[r].pc = "done" /\ req[r].status = "ok"
  /\ Len(req[r].learningPath) > 0
  /\ getBookmarkByUserAndQuery(bookmarks, SignedInUser, req[r].query) = {}
  /\ Len(bookmarks) < MaxBookmarks
  /\ bookmarks' = Append(bookmarks,
                         [id |-> nextBookmarkId(bookmarks), userId |-> SignedInUser,
                          searchQuery |-> req[r].query,
                          videoIds |-> [i \in 1..Len(req[r].learningPath) |->
                                          req[r].learningPath[i].youtubeId]])
  /\ UNCHANGED <<numKeys, currentKeyIndex, searchCache, quota, detailUnits, now,
                 openaiConfigured, remaining, parallel, req, storedVideos, searchResults, history>>

\* Home.handleBookmarkRestore: fetch the bookmark, then each of its videos
handleBookmarkRestore(bookmarkId) ==
  /\ bookmarkId \in 1..Len(bookmarks)
  /\ searchResults' = restoredVideos(storedVideos, bookmarks[bookmarkId].videoIds)
  /\ UNCHANGED <<numKeys, currentKeyIndex, searchCache, quota, detailUnits, now,
                 openaiConfigured, remaining, parallel, req, storedVideos, bookmarks, history>>

InitBookmark ==
  /\ Configured
  /\ parallel = 1
  /\ remaining = MaxStarts
  /\ numKeys = 1

NextBookmark ==
  \/ NextWith({"a"}, Queries, {<<1, 2, 2, 4, 3>>, <<6, 7>>},
              {"quota"}, {<<90, 85, 95>>}, {<<10, 20, 30>>}, {"none"}, {TRUE})
  \/ \E r \in Requests : CreateBookmark(r)
  \/ \E bookmarkId \in 1..MaxBookmarks : handleBookmarkRestore(bookmarkId)

SpecBookmark == InitBookmark /\ [][NextBookmark]_vars

(***************************************************************************)
(* The bookmark endpoints on their own: POST /api/bookmarks and DELETE     *)
(* /api/bookmarks/:bookmarkId by two users, with requests overlapping.  A  *)
(* POST is at one of its await points:                                     *)
(*   "lookup"  awaiting storage.getBookmarkByUserAndQuery                  *)
(*   "insert"  awaiting storage.saveBookmark                               *)
(* An insert of a pair already stored either adds a row (a table without   *)
(* unique constraint on the pair) or is refused by the database (a table   *)
(* with one).                                                              *)
(***************************************************************************)
MaxPosts == 3
Users == {"u1", "u2"}
UniqueConstraint == BOOLEAN

InitBookmarkRace ==
  /\ Configured
  /\ openaiConfigured = FALSE
  /\ parallel = Cardinality(Requests)
  /\ remaining = MaxPosts
  /\ numKeys = 1

\* POST /api/bookmarks arrives and awaits the look-up
PostBookmark(r, userId, searchQuery) ==
  /\ req[r].pc \in {"idle", "done"}
  /\ remaining > 0
  /\ remaining' = remaining - 1
  /\ req' = [req EXCEPT ![r] = [pc |-> "lookup", userId |-> userId, searchQuery |-> searchQuery,
                                videoIds |-> <<1, 3, 2>>, status |-> 0]]
  /\ UNCHANGED <<numKeys, currentKeyIndex, searchCache, quota, detailUnits, now,
                 openaiConfigured, parallel>>
  /\ UNCHANGED <<storedVideos, bookmarks, searchResults, history>>

\* the look-up answers: 409 when the pair is stored, else the insert is sent
BookmarkLookedUp(r) ==
  /\ req[r].pc = "lookup"
  /\ LET existingBookmark ==
           getBookmarkByUserAndQuery(bookmarks, req[r].userId, req[r].searchQuery)
     IN req' = [req EXCEPT ![r] =
                  IF existingBookmark # {}
                  THEN [req[r] EXCEPT !.pc = "done", !.status = 409]
                  ELSE [req[r] EXCEPT !.pc = "insert"]]
  /\ UNCHANGED <<numKeys, currentKeyIndex, searchCache, quota, detailUnits, now,
                 openaiConfigured, remaining, parallel>>
  /\ UNCHANGED <<storedVideos, bookmarks, searchResults, history>>

\* storage.saveBookmark answers: the row is returned, or the insert threw and
\* the catch block answers 500
BookmarkInserted(r, unique) ==
  /\ req[r].pc = "insert"
  /\ LET refused ==
           unique /\ getBookmarkByUserAndQuery(bookmarks, req[r].userId, req[r].searchQuery) # {}
     IN /\ req' = [req EXCEPT ![r] =
                     [req[r] EXCEPT !.pc = "done", !.status = IF refused THEN 500 ELSE 200]]
        /\ bookmarks' =
             IF refused THEN bookmarks
             ELSE Append(bookmarks, [id |-> nextBookmarkId(bookmarks), userId |-> req[r].userId,
                                     searchQuery |-> req[r].searchQuery,
                                     videoIds |-> req[r].videoIds])
  /\ UNCHANGED <<numKeys, currentKeyIndex, searchCache, quota, detailUnits, now,
                 openaiConfigured, remaining, parallel>>
  /\ UNCHANGED <<storedVideos, searchResults, history>>

\* storage.deleteBookmark(bookmarkId, userId)
deleteBookmark(table, bookmarkId, userId) ==
  SelectSeq(table, LAMBDA b : ~(b.id = bookmarkId /\ b.userId = userId))

\* DELETE /api/bookmarks/:bookmarkId with a userId in the body
DeleteBookmark(bookmarkId, userId) ==
  /\ bookmarks' = deleteBookmark(bookmarks, bookmarkId, userId)
  /\ UNCHANGED <<numKeys, currentKeyIndex, searchCache, quota, detailUnits, now,
                 openaiConfigured, remaining, parallel, req>>
  /\ UNCHANGED <<storedVideos, searchResults, history>>

NextBookmarkRace ==
  \/ \E r \in Requests, userId \in Users, searchQuery \in Queries :
       PostBookmark(r, userId, searchQuery)
  \/ \E r \in Requests : BookmarkLookedUp(r)
  \/ \E r \in Requests, unique \in UniqueConstraint : BookmarkInserted(r, unique)
  \/ \E bookmarkId \in 1..MaxPosts, userId \in Users : DeleteBookmark(bookmarkId, userId)

SpecBookmarkRace == InitBookmarkRace /\ [][NextBookmarkRace]_vars

(***************************************************************************)
(* Cache expiry: searches of one topic on one key, with the clock moving   *)
(* in steps around CACHE_DURATION.                                         *)
(***************************************************************************)
FineSteps == {CACHE_DURATION - 1}

InitExpiry ==
  /\ Configured
  /\ parallel = 1
  /\ remaining = MaxStarts
  /\ numKeys = 1

NextExpiry ==
  \/ NextWith({"a"}, Queries, {<<1, 2, 2, 4, 3>>, <<6, 7>>},
              {"quota"}, {<<>>}, {<<>>}, {"none"}, {TRUE})
  \/ \E step \in FineSteps : Tick(step)

SpecExpiry == InitExpiry /\ [][NextExpiry]_vars

(***************************************************************************)
(* The cache on its own: successful fetches of many topics store their     *)
(* result, searches look topics up.  history lists the keys in the order   *)
(* their entries were created.                                             *)
(***************************************************************************)
MaxTopics == 104
TopicChars == <<"a", "b", "c", "d", "e", "f", "g", "h", "i", "j", "k">>

topicOf(n) ==
  <<TopicChars[((n - 1) \div Len(TopicChars)) + 1], TopicChars[((n - 1) % Len(TopicChars)) + 1]>>

\* the same topic as a client may also spell it
respelled(query) == <<" ", "A">> \o Tail(query) \o <<" ">>

\* topics fetched again and again
Favourites == {1}

cachedKeys(cache) == {cache[i].key : i \in 1..Len(cache)}

\* topics are first fetched in the order of their numbers
nextTopic == Cardinality({history[i] : i \in 1..Len(history)}) + 1

InitCache ==
  /\ Configured
  /\ openaiConfigured = FALSE
  /\ parallel = 1
  /\ remaining = 0
  /\ numKeys = 1

\* a search that found no fresh entry fetched successfully:
\* setCachedSearch(query, videos)
CacheStore(query, data) ==
  /\ Len(history) < MaxTopics
  /\ ~getCachedSearch(searchCache, query, now).hit
  /\ searchCache' = setCachedSearch(searchCache, query, data, now)
  /\ history' = IF cacheKeyOf(query) \in cachedKeys(searchCache) THEN history
                ELSE Append(history, cacheKeyOf(query))
  /\ UNCHANGED <<numKeys, currentKeyIndex, quota, detailUnits, now,
                 openaiConfigured, remaining, parallel, req>>
  /\ UNCHANGED <<storedVideos, bookmarks, searchResults>>

\* getCachedSearch(query) at the start of a search
CacheLookup(r, query) ==
  /\ req' = [req EXCEPT ![r] =
               [req[r] EXCEPT !.cacheHit = getCachedSearch(searchCache, query, now).hit]]
  /\ UNCHANGED <<numKeys, currentKeyIndex, searchCache, quota, detailUnits, now,
                 openaiConfigured, remaining, parallel>>
  /\ UNCHANGED <<storedVideos, bookmarks, searchResults, history>>

NextCache ==
  \/ nextTopic <= MaxTopics /\ CacheStore(topicOf(nextTopic), <<1, 2>>)
  \/ \E n \in Favourites : CacheStore(respelled(topicOf(n)), <<2>>)
  \/ \E n \in Favourites : CacheLookup("a", topicOf(n))
  \/ \E step \in TickSteps : Tick(step)

SpecCache == InitCache /\ [][NextCache]_vars

(***************************************************************************)
(* QuotaTracker.getToday on its own, in minutes since the epoch.  A server *)
(* is a local timezone, given as its offset from UTC; the Pacific zone is  *)
(* taken at standard time.                                                 *)
(***************************************************************************)
MinutesPerDay == 1440
PacificOffset == -480
MaxDays == 3
ServerOffsets == {-480, -300, 0, 60, 330, 480}

\* the hours of the days 1..MaxDays, and the minute before each of them
Instants ==
  {MinutesPerDay + 60 * h - m : h \in 1..(24 * MaxDays), m \in {0, 1}}

\* now.toLocaleString("en-US", {timeZone: "America/Los_Angeles"}): the
\* fields of the Pacific wall clock
toLocaleString(t) ==
  [day |-> (t + PacificOffset) \div MinutesPerDay,
   minutes |-> (t + PacificOffset) % MinutesPerDay]

\* new Date(text): a text without a zone is read as the server's local time
parseLocal(text, offset) == text.day * MinutesPerDay + text.minutes - offset

\* toISOString().split('T')[0]: the UTC date
toISODate(t) == t \div MinutesPerDay

getToday(t, offset) == toISODate(parseLocal(toLocaleString(t), offset))

InitDay ==
  /\ numKeys = 1
  /\ openaiConfigured = FALSE
  /\ currentKeyIndex = 0
  /\ searchCache = <<>>
  /\ quota = NoUsage
  /\ detailUnits = [k \in 0..(MaxPoolSize - 1) |-> 0]
  /\ now \in Instants
  /\ storedVideos = {} /\ bookmarks = <<>> /\ searchResults = <<>> /\ history = <<>>
  /\ remaining = 0
  /\ parallel = 1
  /\ req = [r \in Requests |-> IdleRequest]

\* a server in the given timezone files a call under its day
FileUnderToday(offset) ==
  /\ Len(history) < 2
  /\ history' = Append(history, [at |-> now, offset |-> offset, today |-> getToday(now, offset)])
  /\ UNCHANGED <<numKeys, currentKeyIndex, searchCache, quota, detailUnits, now,
                 openaiConfigured, remaining, parallel, req>>
  /\ UNCHANGED <<storedVideos, bookmarks, searchResults>>

NextDay == \E offset \in ServerOffsets : FileUnderToday(offset)

SpecDay == InitDay /\ [][NextDay]_vars

(***************************************************************************)
(* The key pool on its own: the requests in flight take keys in any mix.   *)
(* history lists the calls of getNextYouTubeAPIKey.                        *)
(***************************************************************************)
MaxKeyCalls == 8

InitKeys ==
  /\ Configured
  /\ openaiConfigured = FALSE
  /\ parallel = 2
  /\ remaining = 0
  /\ numKeys \in 1..MaxPoolSize

\* request r is at the head of its key loop
TakeKey(r) ==
  /\ Len(history) < MaxKeyCalls
  /\ LET apiKeyInfo == getNextYouTubeAPIKey(currentKeyIndex, numKeys) IN
       /\ currentKeyIndex' = apiKeyInfo.cursor
       /\ history' = Append(history, [by |-> r, key |-> apiKeyInfo.key, index |-> apiKeyInfo.index])
  /\ UNCHANGED <<numKeys, searchCache, quota, detailUnits, now,
                 openaiConfigured, remaining, parallel, req>>
  /\ UNCHANGED <<storedVideos, bookmarks, searchResults>>

NextKeys == \E r \in Requests : TakeKey(r)

SpecKeys == InitKeys /\ [][NextKeys]_vars

(***************************************************************************)
(* The quota tracker on its own: any sequence of calls on one quota day.   *)
(***************************************************************************)
MaxTracked == 3
VideoCounts == {0, 1, 15}

RECURSIVE SumCalls(_, _)
SumCalls(data, keys) ==
  IF keys = {} THEN 0
  ELSE LET k == CHOOSE x \in keys : TRUE IN
         data[k].searchCalls + data[k].detailCalls + SumCalls(data, keys \ {k})

InitTracker ==
  /\ numKeys = MaxPoolSize
  /\ openaiConfigured = FALSE
  /\ currentKeyIndex = 0
  /\ searchCache = <<>>
  /\ quota = NoUsage
  /\ detailUnits = [k \in 0..(MaxPoolSize - 1) |-> 0]
  /\ now = 0
  /\ storedVideos = {} /\ bookmarks = <<>> /\ searchResults = <<>> /\ history = <<>>
  /\ remaining = 0
  /\ parallel = 1
  /\ req = [r \in Requests |-> IdleRequest]

TrackSearch(keyIndex) ==
  /\ SumCalls(quota, DOMAIN quota) < MaxTracked
  /\ quota' = trackSearchCall(quota, keyIndex)
  /\ UNCHANGED <<numKeys, currentKeyIndex, searchCache, detailUnits, now,
                 openaiConfigured, remaining, parallel, req>>
  /\ UNCHANGED <<storedVideos, bookmarks, searchResults, history>>

TrackDetail(keyIndex, videoCount) ==
  /\ SumCalls(quota, DOMAIN quota) < MaxTracked
  /\ quota' = trackDetailCall(quota, keyIndex, videoCount)
  /\ detailUnits' = [detailUnits EXCEPT ![keyIndex] = @ + videoCount]
  /\ UNCHANGED <<numKeys, currentKeyIndex, searchCache, now,
                 openaiConfigured, remaining, parallel, req>>
  /\ UNCHANGED <<storedVideos, bookmarks, searchResults, history>>

NextTracker ==
  \/ \E keyIndex \in 0..(MaxPoolSize - 1) : TrackSearch(keyIndex)
  \/ \E keyIndex \in 0..(MaxPoolSize - 1), videoCount \in VideoCounts :
       TrackDetail(keyIndex, videoCount)

SpecTracker == InitTracker /\ [][NextTracker]_vars

(***************************************************************************)
(* The threshold cascade of processYouTubeResults on its own: any scored   *)
(* candidate list.                                                         *)
(***************************************************************************)
SelectIdLists == { <<>>, <<1>>, <<2, 6>>, <<1, 2, 3>>, <<7, 6, 3, 2>> }
SelectScores == {0, 59, 60, 79, 80, 120}
LongIdLists == { <<7, 6, 3, 2, 1>>, <<1, 2, 3, 6, 7, 9, 10, 11, 12>>, <<12, 11, 10, 9, 7, 6, 3, 2, 1>> }
LongRelevances ==
  { <<90, 90, 90, 90, 90, 90, 90, 90, 90>>, <<60, 75, 90, 60, 75, 80, 10, 0, 70>>,
    <<10, 20, 30, 40, 50, 55, 59, 0, 45>>, <<80, 60, 100, 79, 59, 80, 60, 100, 30>>,
    <<70, 95, 65, 85, 60, 90, 75, 80, 100>> }

SelectInputs ==
  { [i \in 1..Len(ids) |-> Scored(ids[i], rel[i])] :
      ids \in SelectIdLists, rel \in [1..4 -> SelectScores] }
  \cup { [i \in 1..Len(ids) |-> Scored(ids[i], rel[i])] :
           ids \in LongIdLists, rel \in LongRelevances }

InitSelect ==
  /\ numKeys = 1
  /\ openaiConfigured = FALSE
  /\ currentKeyIndex = 0
  /\ searchCache = <<>>
  /\ quota = NoUsage
  /\ detailUnits = [k \in 0..(MaxPoolSize - 1) |-> 0]
  /\ now = 0
  /\ storedVideos = {} /\ bookmarks = <<>> /\ searchResults = <<>> /\ history = <<>>
  /\ remaining = 0
  /\ parallel = 1
  /\ \E scoredVideos \in SelectInputs :
       req = [r \in Requests |->
                IF r = "a" THEN [IdleRequest EXCEPT !.pc = "select", !.query = w_art,
                                                    !.processedVideos = scoredVideos]
                ELSE IdleRequest]

\* the cascade runs over the scored candidates (kept in processedVideos) and
\* returns relevantVideos (kept in videos)
Select(r) ==
  /\ req[r].pc = "select"
  /\ \E relevantVideos \in selectRelevantVideos(req[r].processedVideos) :
       req' = [req EXCEPT ![r] = [req[r] EXCEPT !.pc = "selected", !.videos = relevantVideos]]
  /\ UNCHANGED <<numKeys, currentKeyIndex, searchCache, quota, detailUnits, now,
                 openaiConfigured, remaining, parallel>>
  /\ UNCHANGED <<storedVideos, bookmarks, searchResults, history>>

NextSelect == \E r \in Requests : Select(r)

SpecSelect == InitSelect /\ [][NextSelect]_vars

(***************************************************************************)
(* The keyword fallbacks of relevance scoring on their own: any candidate  *)
(* batch, any topic, without a language-model key or with a failing call.  *)
(***************************************************************************)
ScoreTopics ==
  { <<"A", "r", "t">>, <<" ", "a", "r", "t", " ">>, w_art \o sp \o w_guide,
    w_go \o sp \o w_art, w_deep \o sp \o w_art \o sp \o w_guide }
ScoreIdLists ==
  { <<1>>, <<2>>, <<3>>, <<6>>, <<7>>, <<9>>, <<10>>, <<11>>, <<12>>,
    <<1, 2, 3>>, <<7, 6, 3, 2, 1>>, <<12, 2, 9, 1>> }

InitScore ==
  /\ numKeys = 1
  /\ openaiConfigured \in BOOLEAN
  /\ currentKeyIndex = 0
  /\ searchCache = <<>>
  /\ quota = NoUsage
  /\ detailUnits = [k \in 0..(MaxPoolSize - 1) |-> 0]
  /\ now = 0
  /\ storedVideos = {} /\ bookmarks = <<>> /\ searchResults = <<>> /\ history = <<>>
  /\ remaining = 0
  /\ parallel = 1
  /\ \E query \in ScoreTopics, processedVideos \in ScoreIdLists :
       req = [r \in Requests |->
                IF r = "a" THEN [IdleRequest EXCEPT !.pc = "scoring", !.query = query,
                                                    !.processedVideos = processedVideos]
                ELSE IdleRequest]

\* the language-model call throws, or there is no key: the batch is scored by
\* keywords (scoredVideos kept in videos)
ScoreByKeywords(r) ==
  /\ req[r].pc = "scoring"
  /\ req' = [req EXCEPT ![r] =
               [req[r] EXCEPT !.pc = "keywordScored",
                  !.videos = IF openaiConfigured
                             THEN scoreWithEnhancedKeywords(req[r].processedVideos, req[r].query)
                             ELSE scoreWithBasicKeywords(req[r].processedVideos, req[r].query)]]
  /\ UNCHANGED <<numKeys, currentKeyIndex, searchCache, quota, detailUnits, now,
                 openaiConfigured, remaining, parallel>>
  /\ UNCHANGED <<storedVideos, bookmarks, searchResults, history>>

NextScore == \E r \in Requests : ScoreByKeywords(r)

SpecScore == InitScore /\ [][NextScore]_vars

(***************************************************************************)
(* generateLearningPath on its own: any candidate list, any answer of the  *)
(* language model.                                                         *)
(***************************************************************************)
PathIdLists == { <<>>, <<3>>, <<2, 6>>, <<1, 2, 3>>, <<7, 6, 3, 2, 1>>, <<1, 2, 1, 3, 6>> }
PathRelevances ==
  { <<90, 90, 90, 90, 90>>, <<60, 75, 90, 60, 75>>, <<90, 60, 90, 60, 90>>, <<60, 90, 75, 90, 60>> }
DifficultyValues == {10, 20, 25, 30}

PathInputs ==
  { [i \in 1..Len(ids) |-> Scored(ids[i], rel[i])] : ids \in PathIdLists, rel \in PathRelevances }

InitPath ==
  /\ numKeys = 1
  /\ openaiConfigured \in BOOLEAN
  /\ currentKeyIndex = 0
  /\ searchCache = <<>>
  /\ quota = NoUsage
  /\ detailUnits = [k \in 0..(MaxPoolSize - 1) |-> 0]
  /\ now = 0
  /\ storedVideos = {} /\ bookmarks = <<>> /\ searchResults = <<>> /\ history = <<>>
  /\ remaining = 0
  /\ parallel = 1
  /\ \E videos \in PathInputs :
       req = [r \in Requests |->
                IF r = "a" THEN [IdleRequest EXCEPT !.pc = "generate", !.query = w_art,
                                                    !.videos = videos]
                ELSE IdleRequest]

\* generateLearningPath is called with the candidates
Generate(r) ==
  /\ req[r].pc = "generate"
  /\ \E next \in afterSearch(req[r], req[r].videos) : req' = [req EXCEPT ![r] = next]
  /\ UNCHANGED <<numKeys, currentKeyIndex, searchCache, quota, detailUnits, now,
                 openaiConfigured, remaining, parallel>>
  /\ UNCHANGED <<storedVideos, bookmarks, searchResults, history>>

NextPath ==
  \/ \E r \in Requests : Generate(r)
  \/ \E r \in Requests :
       \E difficulties \in [1..Len(req[r].videos) -> DifficultyValues] :
         DifficultyResponse(r, TRUE, difficulties)
  \/ \E r \in Requests : DifficultyResponse(r, FALSE, <<>>)
  \/ \E r \in Requests, ok \in BOOLEAN : ClearVideos(r, ok)
  \/ \E r \in Requests, ok \in BOOLEAN : SaveVideos(r, ok)
  \/ \E r \in Requests, lookup \in Lookups, storageOk \in BOOLEAN : Analytics(r, lookup, storageOk)

SpecPath == InitPath /\ [][NextPath]_vars

(***************************************************************************)
(* Properties.                                                             *)
(***************************************************************************)
Answered(r) == req[r].pc = "done"

\* C1: a request for an uncached topic that runs alone and whose search
\* calls all answer 403 quotaExceeded fails with DAILY_LIMIT_REACHED after
\* exactly as many search calls as there are configured keys, and the
\* tracker holds that many more search calls than when the request began.
C1_AllKeysExhausted ==
  \A r \in Requests :
    (Answered(r) /\ req[r].query # <<>> /\ ~req[r].cacheHit /\ req[r].solo /\ req[r].allQuota)
      => /\ req[r].status = "error"
         /\ req[r].error = "DAILY_LIMIT_REACHED"
         /\ req[r].calls = numKeys
         /\ SumSearchCalls(quota, DOMAIN quota) - req[r].searchCallsBefore = numKeys

C1_FourKeysExhausted ==
  \E r \in Requests :
    /\ Answered(r) /\ ~req[r].cacheHit /\ req[r].allQuota
    /\ numKeys = 4 /\ req[r].calls = 4
    /\ req[r].error = "DAILY_LIMIT_REACHED"

\* C2: a search call answered by a non-2xx response other than 403
\* quotaExceeded ends the request at once with the mapped error: the key
\* cursor does not move and the request issues no further search call.
HttpErrors == {"denied", "badkey", "server"}

C2_FailsImmediately ==
  [][\A r \in Requests, kind \in HttpErrors :
       SearchResponse(r, kind, <<>>)
         => /\ req'[r].pc \in {"analytics", "done"}
            /\ req'[r].error = mappedError(kind)
            /\ currentKeyIndex' = currentKeyIndex]_vars

\* C3: a request that fails with DAILY_LIMIT_REACHED has tried every
\* configured key and each of its search calls answered quotaExceeded,
\* whatever the interleaving of the requests that share the cursor.
C3_ExhaustedMeansAllTried ==
  \A r \in Requests :
    (Answered(r) /\ req[r].error = "DAILY_LIMIT_REACHED")
      => /\ req[r].tried = 0..(numKeys - 1)
         /\ req[r].allQuota

\* C4: a request whose trimmed, lowercased topic has a cache entry younger
\* than CACHE_DURATION gets the cached list: no call to the video API is
\* issued, the key cursor stays and no tracker counter changes.
FreshEntry(query) ==
  \E i \in 1..Len(searchCache) :
    /\ searchCache[i].key = trim(toLowerCase(query))
    /\ now - searchCache[i].timestamp < CACHE_DURATION

C4_CacheHitIsFree ==
  [][\A r \in Requests, query \in Queries :
       (Start(r, query) /\ FreshEntry(query))
         => /\ req'[r].pc \notin {"search", "details", "score"}
            /\ req'[r].calls = 0
            /\ req'[r].apiKeyUsed = -1
            /\ req'[r].quotaConsumed = 0
            /\ currentKeyIndex' = currentKeyIndex
            /\ quota' = quota]_vars

C4_HitOnOtherSpelling ==
  \E r \in Requests :
    /\ req[r].cacheHit
    /\ req[r].query = <<" ", "a", "r", "t", " ">>
    /\ \E i \in 1..Len(searchCache) : searchCache[i].key = w_art /\ searchCache[i].data # <<>>

\* C5: whatever calls the tracker has recorded on one quota day, in whatever
\* order, each key's totalUnits is 100 times its search calls plus the sum
\* of the video counts of its detail calls.
C5_UnitsAreCallCosts ==
  \A k \in DOMAIN quota :
    quota[k].totalUnits = 100 * quota[k].searchCalls + detailUnits[k]

C5_MixedCallsOnOneKey ==
  \E k \in DOMAIN quota :
    /\ quota[k].searchCalls = 1 /\ quota[k].detailCalls = 2
    /\ detailUnits[k] = 16 /\ quota[k].totalUnits = 116

\* C6: getTodayUsage reports as totalUnits the sum of the units recorded
\* today under every key index the search can record against, for every
\* pool size up to 6, and byKey has an entry for each of those indexes.
C6_UsageCoversEveryKey ==
  LET usage == getTodayUsage(quota) IN
    /\ usage.totalUnits = SumUnits(quota, DOMAIN quota)
    /\ \A k \in DOMAIN quota :
         \E i \in 1..Len(usage.byKey) :
           usage.byKey[i].keyIndex = k /\ usage.byKey[i].units = quota[k].totalUnits

\* C7 as stated: every list the search returns holds only videos of 120 to
\* 3600 seconds, and with no candidate in that band the search fails
\* rather than return a list.  Every returned list is stored in the cache,
\* so the cache holds no empty list and no video outside the band.
C7_InBandOrFails ==
  \A i \in 1..Len(searchCache) :
    /\ searchCache[i].data # <<>>
    /\ \A j \in 1..Len(searchCache[i].data) :
         /\ durationSeconds(searchCache[i].data[j].id) >= 120
         /\ durationSeconds(searchCache[i].data[j].id) <= 3600

\* C7 amended: every list the search returns, and every path built from
\* it, holds only videos of 120 to 3600 seconds; with no candidate in the
\* band the search returns the empty list (quotaConsumed = 100 + 0) and
\* the request then fails in generateLearningPath with "No videos found".
C7_InBandOrEmpty ==
  /\ \A i \in 1..Len(searchCache) : \A j \in 1..Len(searchCache[i].data) :
       /\ durationSeconds(searchCache[i].data[j].id) >= 120
       /\ durationSeconds(searchCache[i].data[j].id) <= 3600
  /\ \A r \in Requests : \A j \in 1..Len(req[r].learningPath) :
       /\ durationSeconds(req[r].learningPath[j].youtubeId) >= 120
       /\ durationSeconds(req[r].learningPath[j].youtubeId) <= 3600
  /\ \A r \in Requests :
       (req[r].pc \in {"persist", "save", "analytics", "done"} /\ req[r].apiKeyUsed >= 0
          /\ req[r].quotaConsumed = 100)
         => req[r].status # "ok" /\ req[r].error = "NO_VIDEOS"

C7_NothingInBand ==
  \E r \in Requests :
    /\ Answered(r) /\ req[r].apiKeyUsed >= 0 /\ req[r].quotaConsumed = 100
    /\ req[r].error = "NO_VIDEOS"
    /\ \E k \in DOMAIN quota : quota[k].detailCalls = 1 /\ detailUnits[k] = 3
    /\ \E i \in 1..Len(searchCache) : searchCache[i].data = <<>>

\* C8: when difficulty levels 1, 2 and 3 all occur among the classified
\* candidates, the path has exactly 3 videos with distinct identifiers,
\* one of each level, in the order 1, 2, 3.
HasPath(r) ==
  \/ req[r].pc \in {"persist", "save"}
  \/ req[r].pc = "analytics" /\ req[r].error = "none"
  \/ req[r].pc = "done" /\ req[r].status = "ok"

C8_OnePerTier ==
  \A r \in Requests :
    (HasPath(r) /\ {10, 20, 30} \subseteq req[r].tiers)
      => LET path == req[r].learningPath IN
           /\ Len(path) = 3
           /\ Cardinality({path[i].youtubeId : i \in 1..Len(path)}) = 3
           /\ \A i \in 1..Len(path) : path[i].difficultyScore = 10 * i

C8_SurplusDropped ==
  \E r \in Requests :
    /\ HasPath(r) /\ req[r].tiers = {10, 20, 25, 30}
    /\ Len(req[r].learningPath) = 3

\* C9: the path of every successful search has exactly 3 videos, no two
\* with the same identifier, in strictly ascending difficulty.
C9_ThreeDistinctAscending ==
  \A r \in Requests :
    (Answered(r) /\ req[r].status = "ok")
      => LET path == req[r].learningPath IN
           /\ Len(path) = 3
           /\ \A i, j \in 1..Len(path) : i # j => path[i].youtubeId # path[j].youtubeId
           /\ \A i \in 1..(Len(path) - 1) : path[i].difficultyScore < path[i + 1].difficultyScore

\* C10: with 1 or 2 candidates the request is padded to 3 entries or fails;
\* no successful response carries a path of fewer than 3 videos.
C10_NeverShortPath ==
  \A r \in Requests :
    (Answered(r) /\ req[r].status = "ok") => Len(req[r].learningPath) >= PathLength

C13_AnalyticsNeverDecides ==
  [][\A r \in Requests, lookup \in Lookups, storageOk \in BOOLEAN :
       Analytics(r, lookup, storageOk)
         => /\ req'[r].pc = "done"
            /\ req'[r].status = (IF req[r].error = "none" THEN "ok" ELSE "error")
            /\ req'[r].error = req[r].error
            /\ req'[r].learningPath = req[r].learningPath
            /\ searchCache' = searchCache /\ quota' = quota]_vars

C13_AnsweredDespiteAnalytics ==
  \E r \in Requests :
    /\ Answered(r) /\ req[r].analytics = "failed"
    /\ req[r].status = "error" /\ req[r].error = "DAILY_LIMIT_REACHED"

\* C12: a failed search is answered with an error whose kind is one of the
\* six listed kinds and matches its cause: the daily-quota kind is answered
\* exactly when every key was tried and every search call answered
\* quotaExceeded, INVALID_KEY exactly for an HTTP 400, ACCESS_DENIED exactly
\* for a 403 that is not quotaExceeded, NO_RESULTS for an empty result.
errorKindOf(message) ==
  CASE message = "DAILY_LIMIT_REACHED" -> "QUOTA_EXCEEDED_DAILY"
    [] message = "INVALID_KEY" -> "INVALID_KEY"
    [] message = "ACCESS_DENIED" -> "ACCESS_DENIED"
    [] message \in {"NO_VIDEOS_FOUND", "NO_VIDEOS"} -> "NO_RESULTS"
    [] OTHER -> "UPSTREAM_ERROR"

C12_KindMatchesCause ==
  /\ [](\A r \in Requests :
         (Answered(r) /\ req[r].status = "error" /\ req[r].query # <<>>)
           => (errorKindOf(req[r].error) = "QUOTA_EXCEEDED_DAILY")
                = (req[r].allQuota /\ req[r].calls = numKeys))
  /\ [][\A r \in Requests :
          /\ SearchResponse(r, "badkey", <<>>) => errorKindOf(req'[r].error) = "INVALID_KEY"
          /\ SearchResponse(r, "denied", <<>>) => errorKindOf(req'[r].error) = "ACCESS_DENIED"
          /\ SearchResponse(r, "ok", <<>>) => errorKindOf(req'[r].error) = "NO_RESULTS"]_vars

\* C14: restoring a bookmark shows exactly the videos that were saved with
\* it, whatever searches were answered since, searches of the same topic
\* included.
C14_RestoreIsExact ==
  [][\A bookmarkId \in 1..MaxBookmarks :
       handleBookmarkRestore(bookmarkId)
         => searchResults' = bookmarks[bookmarkId].videoIds]_vars

\* C15: every candidate that leaves relevance scoring, whether scored by the
\* language model or by a keyword fallback, has a relevance in [0, 1]; so
\* the relevance of every cached candidate and of every path entry, in
\* hundredths, is in 0..100.
C15_RelevanceInUnitInterval ==
  /\ \A e \in 1..Len(searchCache) : \A i \in 1..Len(searchCache[e].data) :
       searchCache[e].data[i].relevanceScore \in 0..100
  /\ \A r \in Requests : \A i \in 1..Len(req[r].learningPath) :
       req[r].learningPath[i].relevanceScore \in 0..100

\* C16: every video of a path has a difficulty score of exactly 1, 2 or 3
\* (10, 20 or 30 in tenths), whatever the language model answered.
C16_DifficultyIsATier ==
  \A r \in Requests : \A i \in 1..Len(req[r].learningPath) :
    req[r].learningPath[i].difficultyScore \in {10, 20, 30}

\* C17: a request makes at most as many search calls as there are keys, goes
\* through its stages in order (fetch, relevance, difficulty, storage,
\* analytics) without ever going back, except from one key's attempt to the
\* next key's, and ends in exactly one terminal state that never changes:
\* answered with its path, or failed with its error.
Stage(pc) ==
  CASE pc \in {"search", "details"} -> 1
    [] pc = "score" -> 2
    [] pc = "difficulty" -> 3
    [] pc \in {"persist", "save"} -> 4
    [] pc = "analytics" -> 5
    [] OTHER -> 6

Progress(rq) ==
  100 * Stage(rq.pc) + 2 * rq.attempt + (IF rq.pc \in {"details", "save"} THEN 1 ELSE 0)

C17_OncePerStageThenDone ==
  /\ [](\A r \in Requests :
         /\ req[r].calls <= numKeys
         /\ req[r].attempt < numKeys \/ req[r].attempt = 0
         /\ req[r].status \in {"none", "ok", "error"}
         /\ (req[r].pc = "done") = (req[r].status \in {"ok", "error"})
         /\ req[r].status = "ok" => req[r].error = "none" /\ req[r].learningPath # <<>>
         /\ req[r].status = "error" => req[r].error # "none")
  /\ [][\A r \in Requests :
          /\ (Active(req[r]) /\ req'[r] \notin {req[r], [req[r] EXCEPT !.solo = FALSE]})
               => Progress(req'[r]) > Progress(req[r])
          /\ (req[r].pc = "done" /\ ~(\E q \in AllQueries : Start(r, q)))
               => req'[r] \in {req[r], IdleRequest}]_vars

C17_TwoAttemptsAllStages ==
  \E r \in Requests :
    /\ Answered(r) /\ req[r].status = "ok" /\ req[r].calls = 2 /\ req[r].attempt = 1
    /\ req[r].scored > 0 /\ req[r].classified > 0 /\ req[r].analytics = "recorded"

\* C18: when the details call fails after a successful search call, that
\* failure is the request's failure: no further key is selected, no further
\* search call is issued or recorded, and the 100 units of the search call
\* stay recorded.
C18_DetailsFailureIsFinal ==
  [][\A r \in Requests :
       DetailsResponse(r, FALSE)
         => /\ req'[r].error = "DETAILS_FAILED"
            /\ req'[r].pc \in {"analytics", "done"}
            /\ req'[r].calls = req[r].calls
            /\ currentKeyIndex' = currentKeyIndex
            /\ quota' = quota
            /\ quota[req[r].keyIndex].searchCalls >= 1]_vars

\* C19: every attempt of a request that ends in a successful search
\* response or in 403 quotaExceeded is recorded by exactly one
\* trackSearchCall, and no other attempt is recorded: for a request that
\* runs alone, the search calls recorded since it arrived are as many as
\* those attempts, and each has cost 100 units.
C19_RecordedOncePerBilledAttempt ==
  /\ [](\A r \in Requests :
         (req[r].pc # "idle" /\ req[r].solo)
           => SumSearchCalls(quota, DOMAIN quota) - req[r].searchCallsBefore = req[r].billable)
  /\ [][\A r \in Requests, kind \in SearchKinds, items \in SearchItemLists :
          SearchResponse(r, kind, items)
            => /\ SumSearchCalls(quota', DOMAIN quota') - SumSearchCalls(quota, DOMAIN quota)
                    = (IF kind \in {"ok", "quota"} THEN 1 ELSE 0)
               /\ SumUnits(quota', DOMAIN quota') - SumUnits(quota, DOMAIN quota)
                    = (IF kind \in {"ok", "quota"} THEN SearchUnits ELSE 0)]_vars

C19_ThreeAttemptsTwoRecorded ==
  \E r \in Requests :
    /\ Answered(r) /\ req[r].calls = 3 /\ req[r].billable = 2
    /\ SumSearchCalls(quota, DOMAIN quota) = 2

\* C20: the details call of an attempt uses the API key of that attempt's
\* successful search call and is recorded under the key index the search
\* call was recorded under, also when other requests have advanced the
\* shared cursor between the two calls.
C20_DetailsOnTheSearchKey ==
  /\ [](\A r \in Requests :
         req[r].pc = "details"
           => /\ req[r].detailsKey = req[r].currentAPIKey
              /\ req[r].detailsIndex = req[r].keyIndex
              /\ req[r].detailsKey \in req[r].tried
              /\ req[r].keyIndex \in DOMAIN quota
              /\ quota[req[r].keyIndex].searchCalls >= 1)
  /\ [][\A r \in Requests :
          DetailsResponse(r, TRUE)
            => /\ quota'[req[r].keyIndex].detailCalls = quota[req[r].keyIndex].detailCalls + 1
               /\ \A k \in DOMAIN quota : k # req[r].keyIndex => quota'[k] = quota[k]]_vars

C20_DetailsAfterCursorMoved ==
  \E r \in Requests :
    /\ req[r].overtaken /\ ~req[r].solo
    /\ req[r].detailsKey = req[r].currentAPIKey
    /\ currentKeyIndex # req[r].keyIndex
    /\ quota[req[r].detailsIndex].detailCalls >= 1

\* C21: the selection relaxes its threshold in order.  With at least three
\* candidates of relevance >= 0.8 every returned candidate has relevance
\* >= 0.8; otherwise with at least three of relevance >= 0.6 every returned
\* candidate has relevance >= 0.6; otherwise the best-scoring candidates are
\* returned whatever their score.  At most 8 are returned, all of them
\* scored candidates, none twice, and none only when none was scored.
C21_ThresholdsRelaxInOrder ==
  \A r \in Requests :
    req[r].pc = "selected" =>
      LET scoredVideos == req[r].processedVideos
          relevantVideos == req[r].videos
          chosen == {relevantVideos[i] : i \in 1..Len(relevantVideos)}
          left == {scoredVideos[i] : i \in 1..Len(scoredVideos)} \ chosen
          high == Len(atLeast(scoredVideos, HighRelevance))
          medium == Len(atLeast(scoredVideos, MediumRelevance))
      IN /\ Len(relevantVideos) <= 8
         /\ (relevantVideos = <<>>) = (scoredVideos = <<>>)
         /\ chosen \subseteq {scoredVideos[i] : i \in 1..Len(scoredVideos)}
         /\ Cardinality(chosen) = Len(relevantVideos)
         /\ high >= 3
              => /\ \A v \in chosen : v.relevanceScore >= HighRelevance
                 /\ Len(relevantVideos) = (IF high < 8 THEN high ELSE 8)
         /\ (high < 3 /\ medium >= 3)
              => /\ \A v \in chosen : v.relevanceScore >= MediumRelevance
                 /\ Len(relevantVideos) = (IF medium < 8 THEN medium ELSE 8)
         /\ (high < 3 /\ medium < 3)
              => /\ \A v \in chosen, w \in left : v.relevanceScore >= w.relevanceScore
                 /\ Len(relevantVideos) = (IF Len(scoredVideos) < 8 THEN Len(scoredVideos) ELSE 8)

C21_NineHighEightReturned ==
  \E r \in Requests :
    /\ req[r].pc = "selected"
    /\ Len(req[r].processedVideos) = 9 /\ Len(req[r].videos) = 8
    /\ Len(atLeast(req[r].processedVideos, HighRelevance)) = 9

\* C22: on both keyword fallbacks a candidate gets a non-zero score only if
\* every topic word longer than 2 characters occurs in its title or its
\* description, and the failing call and the missing key give the same
\* score to the same candidate and topic.
hasEveryTopicWord(id, query) ==
  LET topicWords == filterLong(splitSpaces(toLowerCase(query))) IN
    \A i \in 1..Len(topicWords) :
      \/ includes(toLowerCase(CatalogTitles[id]), topicWords[i])
      \/ includes(toLowerCase(CatalogDescriptions[id]), topicWords[i])

C22_FallbacksAgree ==
  \A r \in Requests :
    req[r].pc = "keywordScored" =>
      \A i \in 1..Len(req[r].videos) :
        LET v == req[r].videos[i] IN
          /\ v.relevanceScore # 0 => hasEveryTopicWord(v.id, req[r].query)
          /\ v.relevanceScore = enhancedKeywordScore(v.id, req[r].query)
          /\ v.relevanceScore = basicKeywordScore(v.id, req[r].query)

\* C23: a search is served from the cache exactly when the cache holds an
\* entry of its topic that was stored less than 30 minutes ago; with an
\* entry of 30 minutes or more (or none) the search goes to the video API,
\* and the fetch that then succeeds leaves one entry of the topic, stamped
\* with the time of the store.
C23_ServedOnlyWhileFresh ==
  [][/\ \A r \in Requests, q \in Queries :
          Start(r, q)
            => LET fresh == \E e \in 1..Len(searchCache) :
                              /\ searchCache[e].key = trim(toLowerCase(q))
                              /\ now - searchCache[e].timestamp < 30
               IN /\ req'[r].cacheHit = fresh
                  /\ fresh => req'[r].pc # "search" /\ req'[r].calls = 0
                  /\ ~fresh => req'[r].pc = "search"
                  /\ searchCache' = searchCache /\ quota' = quota
     /\ searchCache' # searchCache
          => \E r \in Requests :
               /\ req[r].pc \in {"details", "score"} /\ ~req[r].cacheHit
               /\ Cardinality({e \in 1..Len(searchCache') :
                                 searchCache'[e].key = trim(toLowerCase(req[r].query))}) = 1
               /\ \A e \in 1..Len(searchCache') :
                    searchCache'[e].key = trim(toLowerCase(req[r].query))
                      => searchCache'[e].timestamp = now]_vars

\* an entry stored at 0 was missed at 30 and replaced by the second fetch
C23_RefetchedAtThirty ==
  /\ Len(searchCache) = 1 /\ searchCache[1].timestamp = 30
  /\ 0 \in DOMAIN quota /\ quota[0].detailCalls = 2 /\ quota[0].searchCalls = 2

\* history[i] is the creation of the entry that a cache with these keys holds
isCreation(i, held) ==
  history[i] \in held /\ \A j \in (i + 1)..Len(history) : history[j] # history[i]

\* the key, among those held, whose entry was created first
earliestCreated(held) ==
  history[CHOOSE i \in 1..Len(history) :
            isCreation(i, held) /\ \A m \in 1..(i - 1) : ~isCreation(m, held)]

\* C24: the cache never holds more than 100 entries, one per key.  A store
\* leaves its own entry in the cache, stamped with the current instant, and
\* every other entry as it was.  A store of a new key into a full cache
\* removes exactly one other entry, the one created earliest, whatever was
\* overwritten or looked up since; any other store removes nothing, and an
\* overwrite leaves the order of the keys as it was.
C24_OldestCreatedEvicted ==
  [][searchCache' # searchCache =>
          LET held == cachedKeys(searchCache)
              kept == cachedKeys(searchCache')
              gone == held \ kept
              heldEntries == {searchCache[j] : j \in 1..Len(searchCache)}
              keptEntries == {searchCache'[i] : i \in 1..Len(searchCache')}
              written == keptEntries \ heldEntries
          IN /\ Len(searchCache') <= CacheCeiling
             /\ Cardinality(kept) = Len(searchCache')
             /\ Cardinality(written) = 1
             /\ \A e \in written :
                  /\ e.timestamp = now
                  /\ {c.key : c \in heldEntries \ keptEntries} \subseteq gone \cup {e.key}
                  /\ IF e.key \notin held /\ Len(searchCache) = CacheCeiling
                     THEN /\ Cardinality(gone) = 1
                          /\ kept = (held \ gone) \cup {e.key}
                          /\ gone = {earliestCreated(held)}
                     ELSE kept = held \cup {e.key}
                  /\ e.key \in held =>
                       \A i \in 1..Len(searchCache) : searchCache'[i].key = searchCache[i].key
    ]_vars

\* a full cache after four evictions: the entry of the first topic was
\* evicted, created again, looked up and overwritten half an hour later, and
\* stands before an older entry that was never touched
C24_OverwrittenKeepsItsPlace ==
  /\ Len(searchCache) = CacheCeiling
  /\ searchCache[1].key = topicOf(5)
  /\ searchCache[CacheCeiling - 2] = [key |-> topicOf(1), data |-> <<2>>, timestamp |-> CACHE_DURATION]
  /\ searchCache[CacheCeiling - 1] = [key |-> topicOf(102), data |-> <<1, 2>>, timestamp |-> 0]
  /\ searchCache[CacheCeiling].key = topicOf(103)
  /\ req["a"].cacheHit

\* the calendar date of an instant on the Pacific wall clock
pacificDate(t) == (t + PacificOffset) \div MinutesPerDay

\* C25: the day a call is filed under is the Pacific calendar date of the
\* instant of the call, whatever the local timezone of the server, so two
\* servers filing at the same instant file under the same day.
C25_PacificDayOnEveryServer ==
  /\ \A i \in 1..Len(history) : history[i].today = pacificDate(history[i].at)
  /\ \A i, j \in 1..Len(history) :
       history[i].at = history[j].at => history[i].today = history[j].today

\* C26: the cursor always points into the pool; any N consecutive calls of
\* getNextYouTubeAPIKey, by whichever requests, return every key of the
\* pool exactly once; with two or more keys no two consecutive calls return
\* the same key.
C26_RoundRobin ==
  /\ currentKeyIndex \in 0..(numKeys - 1)
  /\ \A i \in 1..(Len(history) - numKeys + 1) :
       /\ {history[j].key : j \in i..(i + numKeys - 1)} = 0..(numKeys - 1)
       /\ \A j, k \in i..(i + numKeys - 1) : history[j].key = history[k].key => j = k
  /\ numKeys >= 2 =>
       \A i \in 1..(Len(history) - 1) : history[i].key # history[i + 1].key

\* six keys, eight calls shared by two requests: the pool was gone through
\* once and the rotation has started again
C26_SecondRoundStarted ==
  /\ numKeys = MaxPoolSize
  /\ Len(history) = MaxKeyCalls
  /\ history[MaxPoolSize + 1].key = 0
  /\ \E i, j \in 1..MaxPoolSize : history[i].by = "a" /\ history[j].by = "b"

\* the units filed under a key index so far
filedUnder(data, i) == IF i \in DOMAIN data THEN data[i].totalUnits ELSE 0

\* C27: units are filed under the pool index of the key that was sent.
\* Whenever the units filed under an index grow, the request taking the
\* step made its call with the key at that position of the pool.
C27_FiledUnderTheKeySent ==
  [][\A i \in 0..(MaxPoolSize - 1) :
       filedUnder(quota', i) > filedUnder(quota, i)
         => \E r \in Requests : /\ req'[r] # req[r]
                                /\ req[r].pc \in {"search", "details"}
                                /\ req[r].currentAPIKey = i]_vars

\* C28: the quotaConsumed a successful search reports is what the tracker
\* recorded for it.  For a request that started on an empty tracker and ran
\* alone, the reported units are all the units recorded, search and detail
\* calls and quota-exceeded attempts included; a request served from the
\* cache reports 0 and made no call.
C28_ReportedIsRecorded ==
  \A r \in Requests :
    req[r].pc \in {"persist", "save", "analytics", "done"} /\ req[r].error = "none"
      => /\ req[r].cacheHit => req[r].quotaConsumed = 0 /\ req[r].calls = 0
         /\ ~req[r].cacheHit /\ req[r].solo /\ req[r].searchCallsBefore = 0
              => req[r].quotaConsumed = SumUnits(quota, DOMAIN quota)

\* the rows of the videos table under a topic
rowsOf(topic) == {v \in storedVideos : v.topic = topic}

\* C29: once the requests for a topic have been answered, the rows stored
\* under the topic are the path one of them saved, row for row: at most 3
\* rows, never the rows of two requests together.
C29_OnePathStored ==
  (\A r \in Requests : ~Active(req[r]))
    => \A r \in Requests :
         req[r].status = "ok"
           => \E o \in Requests :
                /\ req[o].status = "ok" /\ req[o].query = req[r].query
                /\ Cardinality(rowsOf(req[r].query)) = Len(req[o].learningPath)
                /\ {v.youtubeId : v \in rowsOf(req[r].query)}
                     = {req[o].learningPath[i].youtubeId : i \in 1..Len(req[o].learningPath)}

\* C30: a user has at most one bookmark per search query.  A POST for a pair
\* that is stored when it is answered is answered 409 and stores nothing;
\* any other POST is answered 200 and stores its one row; a DELETE removes
\* nothing but the bookmark of the given id, and only for its owner.
C30_OneBookmarkPerPair ==
  [][/\ \A i, j \in 1..Len(bookmarks') :
          bookmarks'[i].userId = bookmarks'[j].userId
            /\ bookmarks'[i].searchQuery = bookmarks'[j].searchQuery => i = j
     /\ \A r \in Requests :
          req[r].pc \in {"lookup", "insert"} /\ req'[r].pc = "done"
            => IF getBookmarkByUserAndQuery(bookmarks, req[r].userId, req[r].searchQuery) # {}
               THEN req'[r].status = 409 /\ bookmarks' = bookmarks
               ELSE /\ req'[r].status = 200
                    /\ Len(bookmarks') = Len(bookmarks) + 1
                    /\ getBookmarkByUserAndQuery(bookmarks', req[r].userId, req[r].searchQuery) # {}
     /\ \A bookmarkId \in 1..MaxPosts, userId \in Users :
          DeleteBookmark(bookmarkId, userId)
            => \A b \in 1..Len(bookmarks) :
                 (\A k \in 1..Len(bookmarks') : bookmarks'[k] # bookmarks[b])
                   => bookmarks[b].id = bookmarkId /\ bookmarks[b].userId = userId
    ]_vars

====
